---------------------------- MODULE Spec2Model ----------------------------
(***************************************************************************)
(* Model of the concurrent multi-device command dispatcher of fritzctl     *)
(* (package fritz, fritzapi.go): SwitchOn / SwitchOff / Toggle /           *)
(* Temperature -> doConcurrently -> buildBacklog -> scatterGather ->       *)
(* genericResult.                                                          *)
(*                                                                         *)
(* Strings are sequences of pieces (a piece is a literal, a name or a      *)
(* single character); Go's "+" and fmt verbs are concatenation \o.         *)
(* A Go error is a record [nil, msg]; the nil error is NilError.           *)
(***************************************************************************)
EXTENDS Integers, Sequences, FiniteSets, Bags, TLC

(***************************************************************************)
(* Bounds of the model.                                                    *)
(***************************************************************************)
MaxNames == 3
MaxDevices == 2
\* Length of the name list in the specifications of two dispatches in a row
\* and of exchanges that never complete.
MaxNamesShort == 2

(***************************************************************************)
(* Universe of inputs.                                                     *)
(***************************************************************************)
Names == {"Lamp", "Plug", "Fan"}

\* Device records the gateway listing may contain (Name, Identifier); the
\* identifier is a string of characters and may hold separators.
DeviceRecords ==
    { [Name |-> "Lamp", Identifier |-> <<"1", " ", "7">>],
      [Name |-> "Lamp", Identifier |-> <<"2">>],
      [Name |-> "Plug", Identifier |-> <<"3", "\t", "8">>],
      [Name |-> "Fan",  Identifier |-> <<"4">>],
      [Name |-> "Fan",  Identifier |-> <<" ">>] }

\* Errors the transport / the decoder of the device listing can produce.
NilError == [nil |-> TRUE, msg |-> <<>>]
NewError(m) == [nil |-> FALSE, msg |-> m]
ErrHTTP == NewError(<<"Get: connection refused">>)
ErrDecode == NewError(<<"EOF">>)
ErrExchange == NewError(<<"Get: i/o timeout">>)

\* Response body of a successful command exchange.
BodyOK == <<"1", "\n">>

\* A Celsius input value is the rational num/den (den > 0).
Rat(n, d) == [num |-> n, den |-> d]
TempInputs ==
    { Rat(213, 10), Rat(85, 4), Rat(1, 5), Rat(0 - 85, 4), Rat(0 - 213, 10) }

\* The four public entry points with their arguments other than the names.
Calls ==
    { [op |-> "SwitchOn", value |-> Rat(0, 1)],
      [op |-> "SwitchOff", value |-> Rat(0, 1)],
      [op |-> "Toggle", value |-> Rat(0, 1)] }
    \cup { [op |-> "Temperature", value |-> v] : v \in TempInputs }

BoundedSeq(S, n) == UNION { [1..k -> S] : k \in 0..n }

Range(s) == { s[k] : k \in DOMAIN s }

Perms(S) == { p \in [1..Cardinality(S) -> S] : Range(p) = S }

(***************************************************************************)
(* String helpers.                                                         *)
(***************************************************************************)
RECURSIVE Join(_, _)
\* strings.Join(elems, sep)
Join(elems, sep) ==
    IF Len(elems) = 0 THEN <<>>
    ELSE IF Len(elems) = 1 THEN elems[1]
    ELSE elems[1] \o <<sep>> \o Join(Tail(elems), sep)

\* strings.Replace(s, " ", "", -1)
ReplaceSpaces(s) == SelectSeq(s, LAMBDA c : c # " ")

IsSpace(c) == c \in {" ", "\t", "\n", "\r"}

RECURSIVE TrimLeft(_)
TrimLeft(s) ==
    IF Len(s) > 0 /\ IsSpace(s[1]) THEN TrimLeft(Tail(s)) ELSE s

RECURSIVE TrimRight(_)
TrimRight(s) ==
    IF Len(s) > 0 /\ IsSpace(s[Len(s)])
    THEN TrimRight(SubSeq(s, 1, Len(s) - 1)) ELSE s

\* strings.TrimSpace(s)
TrimSpace(s) == TrimRight(TrimLeft(s))

\* stringutils.Quote: every string of the list in quotes.
Quote(strs) == [k \in DOMAIN strs |-> <<"'", strs[k], "'">>]

\* stringutils.ErrorMessages: the message of every error of the list.
ErrorMessages(errs) == [k \in DOMAIN errs |-> errs[k].msg]

VARIABLES
    pc,            \* phase of doConcurrently
    call,          \* entry point and its value argument
    names,         \* the names argument
    listCalls,     \* number of ListDevices calls made
    devList,       \* the decoded device listing of the last fetch
    listErr,       \* the error ListDevices returned
    namesAndAins,  \* the table of getNameToAinTable
    idx,           \* position of the loop of buildBacklog in names
    factoryCalls,  \* number of workFactory calls made
    targets,       \* name -> callable built by workFactory
    workers,       \* name -> state of the goroutine of that target
    requests,      \* bag of the command requests sent to the gateway
    events,        \* logger events, in order
    resultChannel, \* results sent and not yet received by gather
    results,       \* results received by gather
    ret,           \* the error doConcurrently returns
    history,       \* what the earlier dispatches of the same call returned
    hung           \* names of the devices whose exchange never completes

vars == << pc, call, names, listCalls, devList, listErr, namesAndAins, idx,
           factoryCalls, targets, workers, requests, events, resultChannel,
           results, ret, history, hung >>

\* What lies outside one run of doConcurrently.
context == << history, hung >>

EmptyMap == [n \in {} |-> <<>>]

Put(m, k, v) == [x \in DOMAIN m \cup {k} |-> IF x = k THEN v ELSE m[x]]

\* The locals of doConcurrently at its entry.
Fresh ==
    /\ pc = "RESOLVE"
    /\ devList = <<>>
    /\ listErr = NilError
    /\ namesAndAins = EmptyMap
    /\ idx = 1
    /\ factoryCalls = 0
    /\ targets = EmptyMap
    /\ workers = [n \in Names |-> "none"]
    /\ requests = EmptyBag
    /\ events = <<>>
    /\ resultChannel = <<>>
    /\ results = <<>>
    /\ ret = NilError

Init ==
    /\ pc = "RESOLVE"
    /\ call \in Calls
    /\ names \in BoundedSeq(Names, MaxNames)
    /\ history = <<>>
    /\ hung = {}
    /\ listCalls = 0
    /\ devList = <<>>
    /\ listErr = NilError
    /\ namesAndAins = EmptyMap
    /\ idx = 1
    /\ factoryCalls = 0
    /\ targets = EmptyMap
    /\ workers = [n \in Names |-> "none"]
    /\ requests = EmptyBag
    /\ events = <<>>
    /\ resultChannel = <<>>
    /\ results = <<>>
    /\ ret = NilError

(***************************************************************************)
(* getNameToAinTable: the table built from a decoded listing; a later      *)
(* device of the same name overwrites an earlier one.                      *)
(***************************************************************************)
RECURSIVE TableOfFirstWins(_, _)
\* Variant of TableOf in which the first device of a name is kept.
TableOfFirstWins(devs, table) ==
    IF Len(devs) = 0 THEN table
    ELSE IF devs[1].Name \in DOMAIN table
    THEN TableOfFirstWins(Tail(devs), table)
    ELSE TableOfFirstWins(Tail(devs),
             Put(table, devs[1].Name, ReplaceSpaces(devs[1].Identifier)))

RECURSIVE TableOf(_, _)
TableOf(devs, table) ==
    IF Len(devs) = 0 THEN table
    ELSE TableOf(Tail(devs),
                 Put(table, devs[1].Name, ReplaceSpaces(devs[1].Identifier)))

getNameToAinTable(devs) == TableOf(devs, EmptyMap)

(***************************************************************************)
(* RESOLVE: buildBacklog calls getNameToAinTable, which calls ListDevices  *)
(* once.  The exchange fails (errHTTP), the decoding fails (errDecode) or  *)
(* a listing is decoded.  On an error buildBacklog and doConcurrently      *)
(* return it.                                                              *)
(***************************************************************************)
\* Variant of ResolveFail that wraps the error of the fetch.
ResolveFailWrapped ==
    /\ pc = "RESOLVE"
    /\ \E e \in {ErrHTTP, ErrDecode} :
        /\ listErr' = e
        /\ ret' = NewError(<<"cannot list devices: ">> \o e.msg)
    /\ listCalls' = listCalls + 1
    /\ pc' = "DONE"
    /\ UNCHANGED << call, names, devList, namesAndAins, idx, factoryCalls,
                    targets, workers, requests, events, resultChannel,
                    results >>
    /\ UNCHANGED context

ResolveFail ==
    /\ pc = "RESOLVE"
    /\ \E e \in {ErrHTTP, ErrDecode} :
        /\ listErr' = e
        /\ ret' = e
    /\ listCalls' = listCalls + 1
    /\ pc' = "DONE"
    /\ UNCHANGED << call, names, devList, namesAndAins, idx, factoryCalls,
                    targets, workers, requests, events, resultChannel,
                    results >>
    /\ UNCHANGED context

\* Variant of ResolveOK that reuses the table of the previous dispatch.
ResolveOKCached ==
    /\ pc = "RESOLVE"
    /\ IF history = <<>>
       THEN /\ \E devs \in BoundedSeq(DeviceRecords, MaxDevices) :
                /\ devList' = devs
                /\ namesAndAins' = getNameToAinTable(devs)
            /\ listCalls' = listCalls + 1
       ELSE /\ namesAndAins' = history[1].directory
            /\ UNCHANGED << devList, listCalls >>
    /\ listErr' = NilError
    /\ pc' = "BUILD_TARGETS"
    /\ UNCHANGED << call, names, idx, factoryCalls, targets, workers,
                    requests, events, resultChannel, results, ret >>
    /\ UNCHANGED context

ResolveOK ==
    /\ pc = "RESOLVE"
    /\ \E devs \in BoundedSeq(DeviceRecords, MaxDevices) :
        /\ devList' = devs
        /\ namesAndAins' = getNameToAinTable(devs)
    /\ listCalls' = listCalls + 1
    /\ listErr' = NilError
    /\ pc' = "BUILD_TARGETS"
    /\ UNCHANGED << call, names, idx, factoryCalls, targets, workers,
                    requests, events, resultChannel, results, ret >>
    /\ UNCHANGED context

(***************************************************************************)
(* The callables of the four entry points.  workFactory(ain) captures the  *)
(* address and the arguments of the call; invoking the callable performs   *)
(* one GET whose query is modelled by the record Request.                  *)
(***************************************************************************)
workFactory(c, ain) == [op |-> c.op, ain |-> ain, value |-> c.value]

RECURSIVE Digits(_)
Digits(n) ==
    IF n < 10 THEN <<ToString(n)>> ELSE Digits(n \div 10) \o <<ToString(n % 10)>>

\* fmt.Sprintf("%d", n)
FormatInt(n) == IF n < 0 THEN <<"-">> \o Digits(0 - n) ELSE Digits(n)

\* math.Round: the nearest integer, a half rounded away from zero.
Round(r) ==
    IF r.num >= 0
    THEN (2 * r.num + r.den) \div (2 * r.den)
    ELSE 0 - ((2 * (0 - r.num) + r.den) \div (2 * r.den))

getWithAin(ain, switchcmd) ==
    [ain |-> ain, switchcmd |-> switchcmd, hasParam |-> FALSE, param |-> <<>>]

getWithAinAndParam(ain, switchcmd, param) ==
    [ain |-> ain, switchcmd |-> switchcmd, hasParam |-> TRUE, param |-> param]

switchForAin(ain, command) == getWithAin(ain, command)

toggleForAin(ain) == getWithAin(ain, "setswitchtoggle")

\* Variant of temperatureForAin that rounds the value without doubling it.
temperatureForAinNotDoubled(ain, value) ==
    getWithAinAndParam(ain, "sethkrtsoll", FormatInt(Round(value)))

temperatureForAin(ain, value) ==
    LET doubledValue == Rat(2 * value.num, value.den)
        rounded == Round(doubledValue)
    IN getWithAinAndParam(ain, "sethkrtsoll", FormatInt(rounded))

\* The request the callable w sends when invoked.
RequestOf(w) ==
    CASE w.op = "SwitchOn" -> switchForAin(w.ain, "setswitchon")
      [] w.op = "SwitchOff" -> switchForAin(w.ain, "setswitchoff")
      [] w.op = "Toggle" -> toggleForAin(w.ain)
      [] w.op = "Temperature" -> temperatureForAin(w.ain, w.value)

\* Variant of ExchangesOf in which the callable sends its request twice.
ExchangesOfRetry(w) == SetToBag({RequestOf(w)}) (+) SetToBag({RequestOf(w)})

\* The exchanges the callable w performs when invoked: one GET.
ExchangesOf(w) == SetToBag({RequestOf(w)})

(***************************************************************************)
(* BUILD_TARGETS: one iteration of the loop of buildBacklog over names.    *)
(* A name that is absent or maps to "" ends the dispatch with the          *)
(* unknown-device error; the order of the keys in the hint is the order of *)
(* a map iteration, which is not fixed.                                    *)
(***************************************************************************)
UnknownDeviceError(name, keys) ==
    NewError(<<"No device found with name '", name,
               "'. Available devices are ">> \o Join(Quote(keys), ", "))

\* Variant of Resolves that tests the presence of the name only.
ResolvesIfPresent(table, name) == name \in DOMAIN table

Resolves(table, name) == name \in DOMAIN table /\ table[name] # <<>>

\* Variant of BuildUnknown that reports the last unknown name of the list.
BuildUnknownLast ==
    /\ pc = "BUILD_TARGETS"
    /\ idx <= Len(names)
    /\ ~ Resolves(namesAndAins, names[idx])
    /\ LET last == CHOOSE i \in DOMAIN names :
                        /\ ~ Resolves(namesAndAins, names[i])
                        /\ \A j \in DOMAIN names :
                            j > i => Resolves(namesAndAins, names[j])
       IN \E keys \in Perms(DOMAIN namesAndAins) :
            ret' = UnknownDeviceError(names[last], keys)
    /\ targets' = EmptyMap
    /\ pc' = "DONE"
    /\ UNCHANGED << call, names, listCalls, devList, listErr, namesAndAins, idx,
                    factoryCalls, workers, requests, events, resultChannel,
                    results >>
    /\ UNCHANGED context

\* Variant of BuildUnknown that skips the unknown name and goes on.
BuildUnknownSkip ==
    /\ pc = "BUILD_TARGETS"
    /\ idx <= Len(names)
    /\ ~ Resolves(namesAndAins, names[idx])
    /\ idx' = idx + 1
    /\ UNCHANGED << pc, call, names, listCalls, devList, listErr, namesAndAins,
                    factoryCalls, targets, workers, requests, events,
                    resultChannel, results, ret >>
    /\ UNCHANGED context

BuildUnknown ==
    /\ pc = "BUILD_TARGETS"
    /\ idx <= Len(names)
    /\ ~ Resolves(namesAndAins, names[idx])
    /\ \E keys \in Perms(DOMAIN namesAndAins) :
        ret' = UnknownDeviceError(names[idx], keys)
    /\ targets' = EmptyMap
    /\ pc' = "DONE"
    /\ UNCHANGED << call, names, listCalls, devList, listErr, namesAndAins, idx,
                    factoryCalls, workers, requests, events, resultChannel,
                    results >>
    /\ UNCHANGED context

\* Variant of BuildTarget that refuses a name it has already seen.
BuildTargetRejectRepeat ==
    /\ pc = "BUILD_TARGETS"
    /\ idx <= Len(names)
    /\ Resolves(namesAndAins, names[idx])
    /\ IF names[idx] \in DOMAIN targets
       THEN /\ ret' = NewError(<<"Duplicate device name '", names[idx], "'">>)
            /\ targets' = EmptyMap
            /\ pc' = "DONE"
            /\ UNCHANGED << idx, factoryCalls >>
       ELSE /\ targets' = Put(targets, names[idx],
                              workFactory(call, namesAndAins[names[idx]]))
            /\ factoryCalls' = factoryCalls + 1
            /\ idx' = idx + 1
            /\ UNCHANGED << pc, ret >>
    /\ UNCHANGED << call, names, listCalls, devList, listErr, namesAndAins,
                    workers, requests, events, resultChannel, results >>
    /\ UNCHANGED context

\* Variant of BuildTarget that makes a fresh map in every iteration.
BuildTargetFreshMap ==
    /\ pc = "BUILD_TARGETS"
    /\ idx <= Len(names)
    /\ Resolves(namesAndAins, names[idx])
    /\ targets' = Put(EmptyMap, names[idx],
                      workFactory(call, namesAndAins[names[idx]]))
    /\ factoryCalls' = factoryCalls + 1
    /\ idx' = idx + 1
    /\ UNCHANGED << pc, call, names, listCalls, devList, listErr, namesAndAins,
                    workers, requests, events, resultChannel, results, ret >>
    /\ UNCHANGED context

BuildTarget ==
    /\ pc = "BUILD_TARGETS"
    /\ idx <= Len(names)
    /\ Resolves(namesAndAins, names[idx])
    /\ targets' = Put(targets, names[idx],
                      workFactory(call, namesAndAins[names[idx]]))
    /\ factoryCalls' = factoryCalls + 1
    /\ idx' = idx + 1
    /\ UNCHANGED << pc, call, names, listCalls, devList, listErr, namesAndAins,
                    workers, requests, events, resultChannel, results, ret >>
    /\ UNCHANGED context

\* Variant of BuildDone that leaves the loop one name early.
BuildDoneEarly ==
    /\ pc = "BUILD_TARGETS"
    /\ idx >= Len(names)
    /\ pc' = "EXECUTE_ALL_PARALLEL"
    /\ UNCHANGED << call, names, listCalls, devList, listErr, namesAndAins, idx,
                    factoryCalls, targets, workers, requests, events,
                    resultChannel, results, ret >>
    /\ UNCHANGED context

BuildDone ==
    /\ pc = "BUILD_TARGETS"
    /\ idx > Len(names)
    /\ pc' = "EXECUTE_ALL_PARALLEL"
    /\ UNCHANGED << call, names, listCalls, devList, listErr, namesAndAins, idx,
                    factoryCalls, targets, workers, requests, events,
                    resultChannel, results, ret >>
    /\ UNCHANGED context

(***************************************************************************)
(* The handlers doConcurrently passes to scatterGather: the result they    *)
(* return and the event they log.                                          *)
(***************************************************************************)
\* Variant of genericSuccessHandler that logs the success as a warning.
genericSuccessHandlerWarn(key, message) ==
    [log |-> [level |-> "Warn", key |-> key,
              text |-> <<"Successfully processed device '", key,
                         "'; response was: ">> \o TrimSpace(message)],
     res |-> [msg |-> message, err |-> NilError]]

genericSuccessHandler(key, message) ==
    [log |-> [level |-> "Success", key |-> key,
              text |-> <<"Successfully processed device '", key,
                         "'; response was: ">> \o TrimSpace(message)],
     res |-> [msg |-> message, err |-> NilError]]

genericErrorHandler(key, message, err) ==
    [log |-> [level |-> "Warn", key |-> key,
              text |-> <<"Error while processing device '", key,
                         "'; error was: ">> \o err.msg],
     res |-> [msg |-> message,
              err |-> NewError(<<"error toggling device '", key, "': ">>
                               \o err.msg)]]

(***************************************************************************)
(* scatterGather(targets, onSuccess, onError): one goroutine per target    *)
(* invokes the callable and hands its outcome to a handler, whose result   *)
(* goes to the result channel; gather receives as many results as there    *)
(* are targets.                                                            *)
(***************************************************************************)
amountOfWork == Cardinality(DOMAIN targets)

Scatter ==
    /\ pc = "EXECUTE_ALL_PARALLEL"
    /\ workers' = [n \in Names |->
                      IF n \in DOMAIN targets THEN "spawned" ELSE "none"]
    /\ pc' = IF amountOfWork = 0 THEN "AGGREGATE" ELSE "COLLECT"
    /\ UNCHANGED << call, names, listCalls, devList, listErr, namesAndAins, idx,
                    factoryCalls, targets, requests, events, resultChannel,
                    results, ret >>
    /\ UNCHANGED context

\* The goroutine of target k calls the callable: the request goes out.
Invoke(k) ==
    /\ workers[k] = "spawned"
    /\ requests' = requests (+) ExchangesOf(targets[k])
    /\ workers' = [workers EXCEPT ![k] = "running"]
    /\ UNCHANGED << pc, call, names, listCalls, devList, listErr, namesAndAins,
                    idx, factoryCalls, targets, events, resultChannel, results,
                    ret >>
    /\ UNCHANGED context

\* The goroutine of target k hands the handler's result to the channel and
\* ends in state st.
Deliver(k, h, st) ==
    /\ events' = Append(events, h.log)
    /\ resultChannel' = Append(resultChannel, h.res)
    /\ workers' = [workers EXCEPT ![k] = st]
    /\ UNCHANGED << pc, call, names, listCalls, devList, listErr, namesAndAins,
                    idx, factoryCalls, targets, requests, results, ret >>
    /\ UNCHANGED context

\* The exchange of target k ends with a body: the success handler runs.
CompleteOK(k) ==
    /\ workers[k] = "running"
    /\ k \notin hung
    /\ Deliver(k, genericSuccessHandler(k, BodyOK), "succeeded")

\* The exchange of target k ends with an error: the error handler runs.
CompleteErr(k) ==
    /\ workers[k] = "running"
    /\ k \notin hung
    /\ Deliver(k, genericErrorHandler(k, <<>>, ErrExchange), "failed")

\* gather: results[i] = <-resultChannel, amountOfWork times.
Gather ==
    /\ pc = "COLLECT"
    /\ Len(results) < amountOfWork
    /\ Len(resultChannel) > 0
    /\ results' = Append(results, Head(resultChannel))
    /\ resultChannel' = Tail(resultChannel)
    /\ pc' = IF Len(results) + 1 = amountOfWork THEN "AGGREGATE" ELSE "COLLECT"
    /\ UNCHANGED << call, names, listCalls, devList, listErr, namesAndAins, idx,
                    factoryCalls, targets, workers, requests, events, ret >>
    /\ UNCHANGED context

(***************************************************************************)
(* AGGREGATE: genericResult folds the results into the returned error.     *)
(***************************************************************************)
\* Variant of truncateToOne that looks at the last result only.
truncateToOneLast(res) ==
    IF Len(res) > 0 /\ ~ res[Len(res)].err.nil
    THEN NewError(res[Len(res)].err.msg)
    ELSE NilError

\* Variant of truncateToOne that keeps the first error only.
truncateToOneFirst(res) ==
    LET errs == [k \in DOMAIN SelectSeq(res, LAMBDA r : ~ r.err.nil) |->
                    SelectSeq(res, LAMBDA r : ~ r.err.nil)[k].err]
    IN IF Len(errs) > 0 THEN NewError(errs[1].msg) ELSE NilError

truncateToOne(res) ==
    LET errs == [k \in DOMAIN SelectSeq(res, LAMBDA r : ~ r.err.nil) |->
                    SelectSeq(res, LAMBDA r : ~ r.err.nil)[k].err]
    IN IF Len(errs) > 0
       THEN NewError(Join(ErrorMessages(errs), "; "))
       ELSE NilError

\* Variant of genericResult that takes an empty batch for a failure.
genericResultEmptyFails(res) ==
    LET err == truncateToOne(res)
    IN IF ~ err.nil \/ Len(res) = 0
       THEN NewError(<<"Not all devices could be processed! Nested errors are: ">>
                     \o err.msg)
       ELSE NilError

\* Variant of genericResult with the test of the error inverted.
genericResultInverted(res) ==
    LET err == truncateToOne(res)
    IN IF err.nil
       THEN NewError(<<"Not all devices could be processed! Nested errors are: ">>
                     \o err.msg)
       ELSE NilError

genericResult(res) ==
    LET err == truncateToOne(res)
    IN IF ~ err.nil
       THEN NewError(<<"Not all devices could be processed! Nested errors are: ">>
                     \o err.msg)
       ELSE NilError

\* Variant of Aggregate that folds without waiting for scatterGather.
AggregateEarly ==
    /\ pc \in {"COLLECT", "AGGREGATE"}
    /\ ret' = genericResult(results)
    /\ pc' = "DONE"
    /\ UNCHANGED << call, names, listCalls, devList, listErr, namesAndAins, idx,
                    factoryCalls, targets, workers, requests, events,
                    resultChannel, results >>
    /\ UNCHANGED context

\* Variant of Aggregate that gives up waiting when no result is pending.
AggregateOnTimeout ==
    /\ \/ pc = "AGGREGATE"
       \/ pc = "COLLECT" /\ resultChannel = <<>>
    /\ ret' = genericResult(results)
    /\ pc' = "DONE"
    /\ UNCHANGED << call, names, listCalls, devList, listErr, namesAndAins, idx,
                    factoryCalls, targets, workers, requests, events,
                    resultChannel, results >>
    /\ UNCHANGED context

Aggregate ==
    /\ pc = "AGGREGATE"
    /\ ret' = genericResult(results)
    /\ pc' = "DONE"
    /\ UNCHANGED << call, names, listCalls, devList, listErr, namesAndAins, idx,
                    factoryCalls, targets, workers, requests, events,
                    resultChannel, results >>
    /\ UNCHANGED context

Next ==
    \/ ResolveFail
    \/ ResolveOK
    \/ BuildUnknown
    \/ BuildTarget
    \/ BuildDone
    \/ Scatter
    \/ \E k \in Names : Invoke(k)
    \/ \E k \in Names : CompleteOK(k)
    \/ \E k \in Names : CompleteErr(k)
    \/ Gather
    \/ Aggregate

Spec == Init /\ [][Next]_vars

(***************************************************************************)
(* Two dispatches in a row: when doConcurrently has returned, the caller   *)
(* makes the same call again.  Every variable of doConcurrently is a local *)
(* of the call and starts afresh; fritzImpl holds the client only.  What   *)
(* the first dispatch returned, logged and resolved is kept in history.    *)
(***************************************************************************)
SuccessKeys == { events[k].key : k \in { j \in DOMAIN events :
                                            events[j].level = "Success" } }

SecondDispatch ==
    /\ pc = "DONE"
    /\ history = <<>>
    /\ history' = << [ret |-> ret, successes |-> SuccessKeys,
                      directory |-> namesAndAins] >>
    /\ pc' = "RESOLVE"
    /\ devList' = <<>>
    /\ listErr' = NilError
    /\ namesAndAins' = EmptyMap
    /\ idx' = 1
    /\ factoryCalls' = 0
    /\ targets' = EmptyMap
    /\ workers' = [n \in Names |-> "none"]
    /\ requests' = EmptyBag
    /\ events' = <<>>
    /\ resultChannel' = <<>>
    /\ results' = <<>>
    /\ ret' = NilError
    /\ UNCHANGED << call, names, listCalls, hung >>

InitTwice ==
    /\ call \in { c \in Calls : c.op = "Toggle" }
    /\ names \in BoundedSeq(Names, MaxNamesShort)
    /\ history = <<>>
    /\ hung = {}
    /\ listCalls = 0
    /\ Fresh

NextTwice == Next \/ SecondDispatch

SpecTwice == InitTwice /\ [][NextTwice]_vars

(***************************************************************************)
(* Exchanges that may never complete: the devices in hung never answer.    *)
(* The dispatcher and every goroutine keep taking the steps they can take. *)
(***************************************************************************)
Dispatcher ==
    \/ ResolveFail
    \/ ResolveOK
    \/ BuildUnknown
    \/ BuildTarget
    \/ BuildDone
    \/ Scatter
    \/ Gather
    \/ Aggregate

Worker(k) == Invoke(k) \/ CompleteOK(k) \/ CompleteErr(k)

Fairness == WF_vars(Dispatcher) /\ \A k \in Names : WF_vars(Worker(k))

InitHang ==
    /\ call \in { c \in Calls : c.op = "Toggle" }
    /\ names \in BoundedSeq(Names, MaxNamesShort)
    /\ history = <<>>
    /\ hung \in SUBSET Names
    /\ listCalls = 0
    /\ Fresh

SpecHang == InitHang /\ [][Next]_vars /\ Fairness

(***************************************************************************)
(* Vocabulary of the properties.                                           *)
(***************************************************************************)
FetchDone == pc # "RESOLVE"

FetchSucceeded == FetchDone /\ listErr.nil

FetchFailed == FetchDone /\ ~ listErr.nil

UnknownNames == { n \in Range(names) : ~ Resolves(namesAndAins, n) }

EveryNameResolved == FetchSucceeded /\ UnknownNames = {}

IsUnknownDeviceError(e) ==
    /\ ~ e.nil
    /\ Len(e.msg) >= 3
    /\ e.msg[1] = "No device found with name '"
    /\ e.msg[3] = "'. Available devices are "

NoCommandExecuted ==
    /\ requests = EmptyBag
    /\ events = <<>>
    /\ resultChannel = <<>>
    /\ results = <<>>
    /\ \A n \in Names : workers[n] = "none"

EventsOf(level, key) ==
    { k \in DOMAIN events : events[k].level = level /\ events[k].key = key }

(***************************************************************************)
(* C1: when the directory was fetched and some requested name is absent    *)
(* from it or maps to the empty address, no command is ever executed for   *)
(* any name of the batch (no request sent, no event logged, no goroutine   *)
(* started), and the dispatch ends with the unknown-device error of one of *)
(* the unknown names.                                                      *)
(***************************************************************************)
C1_UnknownNameAbortsBatch ==
    (FetchSucceeded /\ UnknownNames # {}) =>
        /\ NoCommandExecuted
        /\ pc \in {"BUILD_TARGETS", "DONE"}
        /\ pc = "DONE" =>
            /\ IsUnknownDeviceError(ret)
            /\ ret.msg[2] \in UnknownNames
            /\ targets = EmptyMap

\* A batch with a resolved name before the unknown one has been aborted.
C1_Witness ==
    /\ pc = "DONE"
    /\ FetchSucceeded
    /\ UnknownNames # {}
    /\ factoryCalls >= 1
    /\ IsUnknownDeviceError(ret)

(***************************************************************************)
(* C2: when the fetch of the directory fails, the dispatch is over, it     *)
(* returns the very error ListDevices returned, no target was built, no    *)
(* request was sent, and ListDevices was called once.                      *)
(***************************************************************************)
C2_FetchFailureAborts ==
    FetchFailed =>
        /\ pc = "DONE"
        /\ ret = listErr
        /\ ret \in {ErrHTTP, ErrDecode}
        /\ listCalls = 1
        /\ factoryCalls = 0
        /\ targets = EmptyMap
        /\ NoCommandExecuted

C2_Witness ==
    /\ pc = "DONE"
    /\ FetchFailed
    /\ ret = ErrDecode
    /\ Len(names) >= 2


Finished(n) == workers[n] \in {"succeeded", "failed"}

Succeeded == { n \in Names : workers[n] = "succeeded" }

Failed == { n \in Names : workers[n] = "failed" }

\* The events logged for name n are exactly one event, of the given level.
OneEvent(level, n) ==
    /\ Cardinality(EventsOf(level, n)) = 1
    /\ Cardinality({ k \in DOMAIN events : events[k].key = n }) = 1

(***************************************************************************)
(* C3: once every name has resolved, the failure of one target leaves the  *)
(* other targets alone.  A step in which the execution of a target fails   *)
(* changes the goroutine of no other target and withdraws no target; when  *)
(* the dispatch has returned, every target has been executed to completion *)
(* and has logged its one event, and if exactly one execution failed there *)
(* is a success event for every other name.                                *)
(***************************************************************************)
C3_AtReturn ==
    (pc = "DONE" /\ EveryNameResolved) =>
        /\ \A n \in Range(names) :
            /\ Finished(n)
            /\ workers[n] = "succeeded" => OneEvent("Success", n)
            /\ workers[n] = "failed" => OneEvent("Warn", n)
        /\ Cardinality(Failed) = 1 =>
            \A n \in Range(names) \ Failed : EventsOf("Success", n) # {}

C3_FailureStep ==
    \A k \in Names :
        (workers[k] = "running" /\ workers'[k] = "failed") =>
            /\ \A j \in Names \ {k} : workers'[j] = workers[j]
            /\ targets' = targets
            /\ pc' = pc

C3_FailureIsLocal == [] C3_AtReturn /\ [][C3_FailureStep]_vars

\* A batch returned with exactly one failed execution and another that
\* succeeded although it completed after the failure.
C3_Witness ==
    /\ pc = "DONE"
    /\ EveryNameResolved
    /\ Cardinality(Failed) = 1
    /\ Len(events) >= 2
    /\ events[1].level = "Warn"
    /\ events[2].level = "Success"

(***************************************************************************)
(* C4: the dispatch is in AGGREGATE or DONE only when every target of the  *)
(* batch has run to completion and every result has been received.         *)
(***************************************************************************)
C4_Barrier ==
    pc \in {"AGGREGATE", "DONE"} =>
        /\ \A n \in DOMAIN targets : Finished(n)
        /\ Len(results) = amountOfWork
        /\ resultChannel = <<>>

C4_Witness ==
    /\ pc = "AGGREGATE"
    /\ amountOfWork >= 2
    /\ \A n \in DOMAIN targets : Finished(n)

(***************************************************************************)
(* C5: the fold of the results returns no error exactly when no result     *)
(* carries one; otherwise the returned message is the fixed prefix         *)
(* followed by the wrapped messages of the failed targets, each once, in   *)
(* some order, joined by "; ", and of no other target.                     *)
(***************************************************************************)
WrappedMessage(n, original) == <<"error toggling device '", n, "': ">> \o original

C5_Fold ==
    (pc = "DONE" /\ EveryNameResolved) =>
        /\ ret.nil <=> \A k \in DOMAIN results : results[k].err.nil
        /\ ret.nil <=> Failed = {}
        /\ ~ ret.nil =>
            \E p \in Perms(Failed) :
                ret.msg =
                    <<"Not all devices could be processed! Nested errors are: ">>
                    \o Join([k \in DOMAIN p |->
                                WrappedMessage(p[k], ErrExchange.msg)], "; ")

\* Two executions failed and their two wrapped messages were joined.
C5_Witness ==
    /\ pc = "DONE"
    /\ EveryNameResolved
    /\ Cardinality(Failed) = 2
    /\ ~ ret.nil
    /\ Len(ret.msg) = 10

(***************************************************************************)
(* C6: for a name list whose names all resolve, the aggregator receives    *)
(* one outcome per distinct requested name: as many outcomes as there are  *)
(* distinct names in the list, which is also the number of targets and of  *)
(* goroutines.                                                             *)
(***************************************************************************)
C6_OneOutcomePerDistinctName ==
    (pc \in {"AGGREGATE", "DONE"} /\ EveryNameResolved) =>
        /\ Len(results) = Cardinality(Range(names))
        /\ amountOfWork = Cardinality(Range(names))
        /\ DOMAIN targets = Range(names)
        /\ \A n \in Names : Finished(n) <=> n \in Range(names)

\* C6 as stated: as many outcomes as the name list has entries.
C6_AsStated ==
    (pc \in {"AGGREGATE", "DONE"} /\ EveryNameResolved) =>
        /\ Len(results) = Len(names)
        /\ amountOfWork = Len(names)

\* The outcomes of a list with a repeated name are about to be folded.
C6_Witness ==
    /\ pc = "AGGREGATE"
    /\ EveryNameResolved
    /\ Len(names) = 3
    /\ Len(results) = 2

(***************************************************************************)
(* C7: when the dispatch of a non-empty name list has returned, every name *)
(* resolved and every execution succeeded, the returned error is nil and   *)
(* the log holds one success event for each requested name and nothing     *)
(* else.                                                                   *)
(***************************************************************************)
EveryExecutionSucceeded == \A n \in Range(names) : workers[n] = "succeeded"

C7_AllSucceed ==
    (pc = "DONE" /\ Len(names) > 0 /\ EveryNameResolved
                 /\ EveryExecutionSucceeded) =>
        /\ ret.nil
        /\ \A n \in Range(names) : OneEvent("Success", n)
        /\ \A k \in DOMAIN events :
            events[k].level = "Success" /\ events[k].key \in Range(names)
        /\ Len(events) = Cardinality(Range(names))

C7_Witness ==
    /\ pc = "DONE"
    /\ EveryNameResolved
    /\ EveryExecutionSucceeded
    /\ Cardinality(Range(names)) = 2
    /\ Len(events) = 2

(***************************************************************************)
(* C8: a dispatch that has returned returned nil exactly when the fetch of *)
(* the directory succeeded, every requested name resolved to a non-empty   *)
(* address and the execution of every requested name succeeded.            *)
(***************************************************************************)
C8_NilIffAllWentWell ==
    pc = "DONE" =>
        (ret.nil <=> (FetchSucceeded /\ EveryNameResolved
                                     /\ EveryExecutionSucceeded))

\* One execution failed after another had succeeded, and the error came back.
C8_Witness ==
    /\ pc = "DONE"
    /\ EveryNameResolved
    /\ Succeeded # {}
    /\ Failed # {}
    /\ results[Len(results)].err.nil
    /\ ~ ret.nil

(***************************************************************************)
(* C9: the phases of a dispatch are ordered.  The phase never moves back;  *)
(* ListDevices is called once, on leaving RESOLVE; and a goroutine is      *)
(* started, a request sent or an event logged only after the fetch has     *)
(* succeeded and the loop of buildBacklog has looked up every name.        *)
(***************************************************************************)
Rank(p) ==
    CASE p = "RESOLVE" -> 0
      [] p = "BUILD_TARGETS" -> 1
      [] p = "EXECUTE_ALL_PARALLEL" -> 2
      [] p = "COLLECT" -> 3
      [] p = "AGGREGATE" -> 4
      [] p = "DONE" -> 5

ExecutionBegun ==
    \/ \E n \in Names : workers[n] # "none"
    \/ requests # EmptyBag
    \/ events # <<>>

C9_Order ==
    /\ listCalls = (IF pc = "RESOLVE" THEN 0 ELSE 1)
    /\ ExecutionBegun =>
        /\ FetchSucceeded
        /\ idx = Len(names) + 1
        /\ pc \in {"COLLECT", "AGGREGATE", "DONE"}
        /\ \A n \in Range(names) : Resolves(namesAndAins, n)

C9_Forward == Rank(pc') >= Rank(pc)

C9_PhasesOrdered == [] C9_Order /\ [][C9_Forward]_vars

\* A request is out for a batch of two names.
C9_Witness ==
    /\ pc = "COLLECT"
    /\ Len(names) >= 2
    /\ \E n \in Names : workers[n] = "running"
    /\ listCalls = 1

(***************************************************************************)
(* C10: every request of a Temperature(value, names) dispatch carries, in  *)
(* decimal, the integer nearest to 2 * value, a tie going to the integer   *)
(* farther from zero; 21.3 gives 43 and 21.25 gives 43.                    *)
(***************************************************************************)
DigitValue(c) == CHOOSE d \in 0..9 : ToString(d) = c

RECURSIVE ParseDigits(_)
ParseDigits(s) ==
    IF Len(s) = 0 THEN 0
    ELSE 10 * ParseDigits(SubSeq(s, 1, Len(s) - 1)) + DigitValue(s[Len(s)])

ParseInt(s) ==
    IF Len(s) > 0 /\ s[1] = "-" THEN 0 - ParseDigits(Tail(s)) ELSE ParseDigits(s)

Abs(x) == IF x < 0 THEN 0 - x ELSE x

\* p is the integer nearest to num/den, a half rounded away from zero.
IsNearestHalfAway(p, num, den) ==
    /\ 2 * Abs(p * den - num) <= den
    /\ 2 * Abs(p * den - num) = den => Abs(p * den) > Abs(num)

WellFormedDecimal(s) ==
    /\ Len(s) > 0
    /\ \A k \in DOMAIN s :
        \/ s[k] \in { ToString(d) : d \in 0..9 }
        \/ k = 1 /\ s[k] = "-" /\ Len(s) > 1

C10_TemperatureParam ==
    call.op = "Temperature" =>
        \A r \in BagToSet(requests) :
            /\ r.switchcmd = "sethkrtsoll"
            /\ r.hasParam
            /\ WellFormedDecimal(r.param)
            /\ IsNearestHalfAway(ParseInt(r.param), 2 * call.value.num,
                                 call.value.den)
            /\ call.value = Rat(213, 10) => r.param = <<"4", "3">>
            /\ call.value = Rat(85, 4) => r.param = <<"4", "3">>
            /\ call.value = Rat(0 - 85, 4) => r.param = <<"-", "4", "3">>

\* Temperature(-21.25, ...) has sent its request to two targets.
C10_Witness ==
    /\ call = [op |-> "Temperature", value |-> Rat(0 - 85, 4)]
    /\ BagCardinality(requests) = 2

(***************************************************************************)
(* C11: the table built from a successful listing holds, for every device, *)
(* its identifier without any whitespace character, so no address of the   *)
(* table and no address sent in a request contains whitespace.             *)
(***************************************************************************)
HasWhitespace(s) == \E k \in DOMAIN s : IsSpace(s[k])

C11_NoWhitespaceInAddress ==
    FetchSucceeded =>
        /\ \A n \in DOMAIN namesAndAins : ~ HasWhitespace(namesAndAins[n])
        /\ \A r \in BagToSet(requests) : ~ HasWhitespace(r.ain)

(***************************************************************************)
(* C12: nothing is retried.  Every target whose callable was invoked has   *)
(* exactly one request in the bag of requests sent, and no other request   *)
(* exists; a goroutine that has finished never runs again; a failed        *)
(* exchange has exactly one failure event and no success event, and the    *)
(* returned error holds its wrapped message exactly once.                  *)
(***************************************************************************)
Invoked(n) == workers[n] \in {"running", "succeeded", "failed"}

WrappedCount(e, n) ==
    Cardinality({ k \in DOMAIN e.msg :
                    /\ k > 1
                    /\ e.msg[k] = n
                    /\ e.msg[k - 1] = "error toggling device '" })

C12_OneExchange ==
    /\ BagCardinality(requests) = Cardinality({ n \in Names : Invoked(n) })
    /\ \A n \in DOMAIN targets :
        CopiesIn(RequestOf(targets[n]), requests) = (IF Invoked(n) THEN 1 ELSE 0)
    /\ \A n \in Failed :
        /\ OneEvent("Warn", n)
        /\ pc = "DONE" => WrappedCount(ret, n) = 1
    /\ \A n \in Succeeded : pc = "DONE" => WrappedCount(ret, n) = 0

C12_NoSecondAttempt ==
    \A n \in Names : Finished(n) => workers'[n] = workers[n]

C12_NoRetry == [] C12_OneExchange /\ [][C12_NoSecondAttempt]_vars

\* A dispatch of two targets returned after one of the exchanges failed.
C12_Witness ==
    /\ pc = "DONE"
    /\ Failed # {}
    /\ BagCardinality(requests) = 2

(***************************************************************************)
(* C15: the table has one entry per device name of the listing, and the    *)
(* entry of a name is the identifier, spaces removed, of the last device   *)
(* of that name in the listing; the target of a name and every request     *)
(* sent carry the address of such a last device only.                      *)
(***************************************************************************)
RECURSIVE WithoutSpaces(_)
WithoutSpaces(s) ==
    IF Len(s) = 0 THEN <<>>
    ELSE IF s[Len(s)] = " " THEN WithoutSpaces(SubSeq(s, 1, Len(s) - 1))
    ELSE Append(WithoutSpaces(SubSeq(s, 1, Len(s) - 1)), s[Len(s)])

LastIndexOf(n) ==
    CHOOSE i \in DOMAIN devList :
        /\ devList[i].Name = n
        /\ \A j \in DOMAIN devList : j > i => devList[j].Name # n

LastAddressOf(n) == WithoutSpaces(devList[LastIndexOf(n)].Identifier)

C15_LastDeviceWins ==
    FetchSucceeded =>
        /\ DOMAIN namesAndAins = { devList[i].Name : i \in DOMAIN devList }
        /\ \A n \in DOMAIN namesAndAins : namesAndAins[n] = LastAddressOf(n)
        /\ \A n \in DOMAIN targets : targets[n].ain = LastAddressOf(n)
        /\ \A r \in BagToSet(requests) :
            \E n \in Range(names) : r.ain = LastAddressOf(n)

\* Two devices are called Lamp and the command went to the second one.
C15_Witness ==
    /\ Len(devList) = 2
    /\ devList[1] = [Name |-> "Lamp", Identifier |-> <<"1", " ", "7">>]
    /\ devList[2] = [Name |-> "Lamp", Identifier |-> <<"2">>]
    /\ \E r \in BagToSet(requests) : r.ain = <<"2">>

(***************************************************************************)
(* C16: when the names of a list all resolve and the list repeats a name,  *)
(* the command is executed once per distinct name: when the dispatch has   *)
(* returned, the requests sent, the results folded and the events logged   *)
(* are one per distinct name, although workFactory was called once per     *)
(* entry of the list.                                                      *)
(***************************************************************************)
HasRepeatedName == Cardinality(Range(names)) < Len(names)

C16_OncePerDistinctName ==
    (EveryNameResolved /\ HasRepeatedName) =>
        /\ BagCardinality(requests) <= Cardinality(Range(names))
        /\ Len(events) <= Cardinality(Range(names))
        /\ pc = "DONE" =>
            /\ BagCardinality(requests) = Cardinality(Range(names))
            /\ Len(results) = Cardinality(Range(names))
            /\ factoryCalls = Len(names)
            /\ \A n \in Range(names) :
                /\ CopiesIn(RequestOf(targets[n]), requests) = 1
                /\ Cardinality({ k \in DOMAIN events : events[k].key = n }) = 1

\* Toggle("Lamp", "Plug", "Lamp") and the like have returned.
C16_Witness ==
    /\ pc = "DONE"
    /\ EveryNameResolved
    /\ Len(names) = 3
    /\ Cardinality(Range(names)) = 2
    /\ names[1] = names[3]
    /\ BagCardinality(requests) = 2

(***************************************************************************)
(* C17: a dispatch with an empty name list calls ListDevices once; when    *)
(* the fetch fails it returns the error of the fetch; otherwise it builds  *)
(* no target, sends no request, logs no event and returns nil.             *)
(***************************************************************************)
C17_EmptyNameList ==
    names = <<>> =>
        /\ NoCommandExecuted
        /\ targets = EmptyMap
        /\ factoryCalls = 0
        /\ pc = "DONE" =>
            /\ listCalls = 1
            /\ FetchFailed => (ret = listErr /\ ~ ret.nil)
            /\ FetchSucceeded => ret.nil

\* The dispatch of no name returned nil after fetching a listing of devices.
C17_Witness ==
    /\ names = <<>>
    /\ pc = "DONE"
    /\ FetchSucceeded
    /\ Len(devList) > 0
    /\ ret.nil

(***************************************************************************)
(* C18: when a dispatch ends on an unknown name, its error names the first *)
(* unknown name of the list and no other before the hint, which lists the  *)
(* keys of the table; workFactory has been called once for every entry of  *)
(* the list before that name, and no callable has been invoked.            *)
(***************************************************************************)
Unknown(n) == n \notin DOMAIN namesAndAins \/ namesAndAins[n] = <<>>

FirstUnknownIndex ==
    CHOOSE i \in DOMAIN names :
        /\ Unknown(names[i])
        /\ \A j \in DOMAIN names : j < i => ~ Unknown(names[j])

C18_FirstUnknownNamed ==
    (pc = "DONE" /\ FetchSucceeded /\ \E i \in DOMAIN names : Unknown(names[i])) =>
        /\ Len(ret.msg) >= 3
        /\ ret.msg[1] = "No device found with name '"
        /\ ret.msg[2] = names[FirstUnknownIndex]
        /\ ret.msg[3] = "'. Available devices are "
        /\ \E p \in Perms(DOMAIN namesAndAins) :
            SubSeq(ret.msg, 4, Len(ret.msg)) = Join(Quote(p), ", ")
        /\ factoryCalls = FirstUnknownIndex - 1
        /\ idx = FirstUnknownIndex
        /\ NoCommandExecuted

\* Two different names are unknown; a resolved name precedes the first.
C18_Witness ==
    /\ pc = "DONE"
    /\ FetchSucceeded
    /\ Len(names) = 3
    /\ ~ Unknown(names[1])
    /\ Unknown(names[2])
    /\ Unknown(names[3])
    /\ names[2] # names[3]
    /\ factoryCalls = 1

(***************************************************************************)
(* C19: when the first name of the list that does not resolve is a key of  *)
(* the table with an empty address, the dispatch ends with the             *)
(* unknown-device error of that name, and the hint of that error lists the *)
(* name, quoted, among the available devices.                              *)
(***************************************************************************)
PresentButEmpty(n) == n \in DOMAIN namesAndAins /\ namesAndAins[n] = <<>>

C13_Refetches ==
    listCalls = Len(history) + (IF pc = "RESOLVE" THEN 0 ELSE 1)

C13_SameOutcome ==
    (/\ pc = "DONE"
     /\ history # <<>>
     /\ history[1].ret.nil
     /\ FetchSucceeded
     /\ namesAndAins = history[1].directory
     /\ Failed = {}) =>
        /\ ret.nil
        /\ SuccessKeys = history[1].successes
        /\ SuccessKeys = Range(names)
        /\ Len(events) = Cardinality(history[1].successes)

C13_Stateless == C13_Refetches /\ C13_SameOutcome

\* Two dispatches of two names have both returned nil.
C13_Witness ==
    /\ pc = "DONE"
    /\ history # <<>>
    /\ history[1].ret.nil
    /\ ret.nil
    /\ listCalls = 2
    /\ Cardinality(SuccessKeys) = 2
    /\ SuccessKeys = history[1].successes

(***************************************************************************)
(* C14: there is no timeout.  When no requested device is one whose        *)
(* exchange never completes, the dispatch eventually returns; when every   *)
(* name has resolved and the exchange of a requested device never          *)
(* completes, the dispatch is never in AGGREGATE or DONE, whatever the     *)
(* other targets have done.                                                *)
(***************************************************************************)
HungTargets == Range(names) \cap hung

C14_Returns == (HungTargets = {}) ~> (pc = "DONE")

C14_Blocked ==
    (EveryNameResolved /\ HungTargets # {}) => pc \notin {"AGGREGATE", "DONE"}

C14_NoTimeout == C14_Returns /\ [] C14_Blocked

\* One target never answers; the other has succeeded and its result has been
\* received, and the dispatcher is still waiting.
C14_Witness ==
    /\ pc = "COLLECT"
    /\ \E n \in HungTargets : workers[n] = "running"
    /\ Succeeded # {}
    /\ Len(results) = 1
    /\ resultChannel = <<>>

=============================================================================
